---- MODULE Spec2Model ----
(***************************************************************************)
(* A model of run.py: a one-file note editor whose Flask server writes the *)
(* note on every POST /save and records it with `git add .` / `git commit`,*)
(* and whose page debounces keyup events into save requests.               *)
(*                                                                         *)
(* The disk (directory, .git metadata, note file), git's index and history *)
(* are state; setup_repo, run_git_commit, index and save_and_commit are    *)
(* operators computed branch by branch as the code computes them; every    *)
(* subprocess and file-system outcome is an input of the action.  A save  *)
(* request is handled in the steps of save_and_commit (open, write, git    *)
(* add, git commit), and GET /, a stop and the steps of other save         *)
(* requests fall between them, as in the threaded server app.run starts.   *)
(***************************************************************************)
EXTENDS Integers, Sequences, FiniteSets, TLC

\* ---------------------------------------------------------------- bounds
MaxClock == 1       \* the local time read by an operation is in 0..MaxClock seconds
MaxCommits == 3     \* requests are sent while the history is shorter than this
MaxTicks == 6       \* the page's time runs over 0..MaxTicks quanta
MaxKeys == 3        \* keyup events in a behaviour of the page
MaxInflight == 1    \* save requests and git children left behind, in flight at a
                    \* time (two requests overlap in RaceSpec)

\* ------------------------------------------------------ program constants
NOTE_FILENAME == "my_first_note.md"
NOTE_PATH == "notes_repo/" \o NOTE_FILENAME
WELCOME == "# Welcome to your Version-Controlled Notebook!\n\nStart typing here. Changes will be automatically committed to Git."
INITIAL_MESSAGE == "Initial setup of the notebook file."
SAVE_DELAY_MS == 2000
\* The page's time advances by half the idle delay.
Quantum == SAVE_DELAY_MS \div 2

\* ---------------------------------------------------------------- inputs
\* A file is the one-element tuple of its text; NoFile stands for "no such
\* file" (note file absent, nothing staged, no commit yet).
NoFile == <<>>
File(text) == <<text>>
Text(f) == f[1]

\* A note of one line ended the way a browser posts a line end (CR LF), with a
\* character that HTML escapes.
MarkedLine == "<a\r\n"
\* Contents a client posts.
Contents == {"", MarkedLine}
\* Values the page's textarea can hold.
EditorValues == {"", "a"}
\* request.form: the content field may be missing from the form.
\* A form is the tuple of its content fields: none, or one.
NoField == <<>>
Forms == {<<c>> : c \in Contents} \cup {NoField}

\* How a subprocess.run(["git", ...]) call can end: the command succeeds,
\* git exits non-zero, the executable is not found (FileNotFoundError), or
\* the file found may not be executed (PermissionError).
GitOutcomes == {"ok", "fail", "nogit", "noexec"}
\* How open(NOTE_PATH, "w") + f.write can end: written, open() raises (file
\* untouched), or the write raises after open() has truncated the file.
WriteOutcomes == {"ok", "open_raises", "write_raises"}

\* What git and the OS print (one representative text per failure).
AddStderr == "fatal: Unable to create 'notes_repo/.git/index.lock': File exists.\n"
CommitStderrBody == "fatal: unable to auto-detect email address"
CommitStderr == CommitStderrBody \o "\n"
NothingToCommitOut == "On branch master\nnothing to commit, working tree clean\n"
ExecError == "[Errno 13] Permission denied: 'git'"
\* str(e) of the OSError that open(NOTE_PATH) raises, the path written between
\* two marks q: the apostrophe in Python, its escape in the page.
NoFileErrorWith(q) == "[Errno 2] No such file or directory: " \o q \o NOTE_PATH \o q
OpenErrorWith(q) == "[Errno 13] Permission denied: " \o q \o NOTE_PATH \o q
NoFileError == NoFileErrorWith("'")
OpenError == OpenErrorWith("'")
WriteError == "[Errno 28] No space left on device"

\* No strip at all.
Strip_None(s) == s

\* str.strip() on the texts git prints in this model.
Strip(s) == IF s = CommitStderr THEN CommitStderrBody ELSE s
\* `"nothing to commit" in result.stdout`, on the stdout texts of this model.
HasNothingToCommit(stdout) == stdout = NothingToCommitOut

\* ------------------------------------------------------------ timestamps
TwoDigits(n) == IF n < 10 THEN "0" \o ToString(n) ELSE ToString(n)
\* time.strftime('%H:%M:%S') at t seconds after 1970-01-01 00:00:00 local time
HMS(t) == TwoDigits((t \div 3600) % 24) \o ":" \o TwoDigits((t \div 60) % 60) \o ":" \o TwoDigits(t % 60)
\* time.strftime("%Y-%m-%d %H:%M:%S"), for t within the first day
YMDHMS(t) == "1970-01-01 " \o HMS(t)

VARIABLES
    dirExists,      \* os.path.exists(REPO_DIR)
    gitDir,         \* os.path.exists(REPO_DIR/.git)
    noteFile,       \* the note file, or NoFile
    index,          \* the note as staged in git's index, or NoFile
    history,        \* the commits of the branch, oldest first: [message, tree]
    phase,          \* "new" | "serving" | "stopped" | "exited"
    exitCode,       \* the exit status of a process that exited
    last,           \* the latest operation that ended (start, GET /, save request,
                    \* git child left behind):
                    \* its inputs, what it found, its result
    prev,           \* a summary of the operation that ended before it
    now,            \* the page's time, in ms
    editorValue,    \* editor.value
    saveTimer,      \* the page's saveTimer: 0 for null, or a timer id
    timers,         \* the browser's pending timeouts: [id, due]
    nextId,         \* the id the next setTimeout returns
    events,         \* the page's keyup events and save requests, in order
    typed,          \* editor.value as the latest keyup event found it
    inflight        \* the save requests being handled step by step, in the order sent,
                    \* and the git children that outlived their server

serverVars == <<dirExists, gitDir, noteFile, index, history, phase, exitCode, last, prev>>
pageVars == <<now, editorValue, saveTimer, timers, nextId, events, typed>>
raceVars == <<inflight>>
vars == <<serverVars, pageVars, raceVars>>

\* --------------------------------------------------------------- the disk
Disk == [dir |-> dirExists, git |-> gitDir, note |-> noteFile, index |-> index, history |-> history]

HeadTree(h) == IF h = <<>> THEN NoFile ELSE h[Len(h)].tree

\* Whether the repository directory and its .git metadata exist on disk d.
Repo(d) == [dir |-> d.dir, git |-> d.git]

\* A `git add` that succeeds without staging anything.
GitAdd_NoStage(d, out) ==
    CASE out = "nogit" -> [raised |-> "FileNotFoundError", stderr |-> "", d |-> d]
      [] out = "noexec" -> [raised |-> "PermissionError", stderr |-> "", d |-> d]
      [] out = "fail"  -> [raised |-> "CalledProcessError", stderr |-> AddStderr, d |-> d]
      [] OTHER         -> [raised |-> "none", stderr |-> "", d |-> d]

\* subprocess.run(["git", "add", "."], check=True): stage the working tree.
GitAdd(d, out) ==
    CASE out = "nogit" -> [raised |-> "FileNotFoundError", stderr |-> "", d |-> d]
      [] out = "noexec" -> [raised |-> "PermissionError", stderr |-> "", d |-> d]
      [] out = "fail"  -> [raised |-> "CalledProcessError", stderr |-> AddStderr, d |-> d]
      [] OTHER         -> [raised |-> "none", stderr |-> "", d |-> [d EXCEPT !.index = d.note]]

\* A commit that replaces the branch's latest commit (as --amend does).
AppendCommit_Amend(h, message, tree) ==
    IF h = <<>> THEN <<[message |-> message, tree |-> tree]>>
    ELSE [h EXCEPT ![Len(h)] = [message |-> message, tree |-> tree]]

\* The history after git commit has recorded the index under `message`.
AppendCommit(h, message, tree) == Append(h, [message |-> message, tree |-> tree])

\* subprocess.run(["git", "commit", "-m", message], check=False): git exits 1
\* and prints "nothing to commit" on stdout when the index equals HEAD's tree.
GitCommit(d, message, out) ==
    CASE out = "nogit" ->
           [raised |-> "FileNotFoundError", returncode |-> -1, stdout |-> "", stderr |-> "", d |-> d]
      [] out = "noexec" ->
           [raised |-> "PermissionError", returncode |-> -1, stdout |-> "", stderr |-> "", d |-> d]
      [] out = "fail" ->
           [raised |-> "none", returncode |-> 128, stdout |-> "", stderr |-> CommitStderr, d |-> d]
      [] OTHER ->
           IF d.index = HeadTree(d.history)
           THEN [raised |-> "none", returncode |-> 1, stdout |-> NothingToCommitOut, stderr |-> "", d |-> d]
           ELSE [raised |-> "none", returncode |-> 0, stdout |-> "[master] " \o message \o "\n",
                 stderr |-> "", d |-> [d EXCEPT !.history = AppendCommit(d.history, message, d.index)]]

\* run_git_commit, step 1 (lines 57-65, and the except clauses that end it):
\* `done` tells that the function is left here, with `ret` returned or
\* `raised` propagating because neither except clause names it.
StageAll(d, addOut) ==
    LET a == GitAdd(d, addOut) IN
    IF a.raised = "none"
    THEN [done |-> FALSE, ret |-> "", d |-> a.d, raised |-> "none"]
    ELSE IF a.raised = "CalledProcessError"
    THEN [done |-> TRUE, ret |-> "System error during Git operation: " \o a.stderr, d |-> a.d, raised |-> "none"]
    ELSE IF a.raised = "FileNotFoundError"
    THEN [done |-> TRUE, ret |-> "System error: Git executable not found.", d |-> a.d, raised |-> "none"]
    ELSE [done |-> TRUE, ret |-> "", d |-> a.d, raised |-> a.raised]

\* A second step that reports a commit whatever git commit's exit status.
CommitStaged_IgnoreStatus(d, message, t, commitOut) ==
    LET c == GitCommit(d, message, commitOut) IN
    IF c.raised = "FileNotFoundError"
    THEN [ret |-> "System error: Git executable not found.", d |-> c.d, raised |-> "none"]
    ELSE IF c.raised # "none"
    THEN [ret |-> "", d |-> c.d, raised |-> c.raised]
    ELSE [ret |-> "Change committed successfully! (" \o message \o ")", d |-> c.d, raised |-> "none"]

\* run_git_commit, step 2 (lines 67-82, and the except clauses): git commit
\* and the string built from its exit status, read at time t.
CommitStaged(d, message, t, commitOut) ==
    LET c == GitCommit(d, message, commitOut) IN
    IF c.raised = "FileNotFoundError"
    THEN [ret |-> "System error: Git executable not found.", d |-> c.d, raised |-> "none"]
    ELSE IF c.raised # "none"
    THEN [ret |-> "", d |-> c.d, raised |-> c.raised]
    ELSE IF c.returncode = 0
    THEN IF HasNothingToCommit(c.stdout)
         THEN [ret |-> "No changes detected (Autosave attempted at " \o HMS(t) \o ").",
               d |-> c.d, raised |-> "none"]
         ELSE [ret |-> "Change committed successfully! (" \o message \o ")", d |-> c.d, raised |-> "none"]
    ELSE [ret |-> "Git Commit Failed: " \o Strip(c.stderr), d |-> c.d, raised |-> "none"]

\* run_git_commit(message) at time t, run without another git call in
\* between: the returned string, the disk after, the git subcommands it
\* invoked, and the exception that leaves it when subprocess.run raises one
\* that neither except clause names.
run_git_commit(d, message, t, addOut, commitOut) ==
    LET a == StageAll(d, addOut) IN
    IF a.done
    THEN [ret |-> a.ret, d |-> a.d, calls |-> <<"add">>, raised |-> a.raised]
    ELSE LET c == CommitStaged(a.d, message, t, commitOut) IN
         [ret |-> c.ret, d |-> c.d, calls |-> <<"add", "commit">>, raised |-> c.raised]

\* subprocess.run(["git", "init"]) in a directory without .git: an empty
\* repository, nothing staged, no commit.
GitInit(d) == [d EXCEPT !.git = TRUE, !.index = NoFile, !.history = <<>>]

\* open(NOTE_PATH, "w"): the file is created or truncated, or open raises and
\* leaves the file as it was.
OpenForWrite(d, ok) ==
    IF ok THEN [raised |-> FALSE, detail |-> "", d |-> [d EXCEPT !.note = File("")]]
    ELSE [raised |-> TRUE, detail |-> OpenError, d |-> d]

\* Writing `text` at offset 0 of a file that holds `old`: the bytes of old
\* past the end of text stay (on the texts of this model, whose non-empty
\* contents have one length; old is "" unless another handler has written
\* since this one opened the file).
Overlay(text, old) == IF text = "" THEN old ELSE text

\* A write whose exception is swallowed: the caller goes on to commit.
WriteAndClose_Swallow(d, text, ok) ==
    IF ok THEN [raised |-> FALSE, detail |-> "", d |-> [d EXCEPT !.note = File(Overlay(text, Text(d.note)))]]
    ELSE [raised |-> FALSE, detail |-> WriteError, d |-> d]

\* f.write(text) and the close of the `with` block: the text reaches the
\* file the handler opened, or the write raises.
WriteAndClose(d, text, ok) ==
    IF ok THEN [raised |-> FALSE, detail |-> "", d |-> [d EXCEPT !.note = File(Overlay(text, Text(d.note)))]]
    ELSE [raised |-> TRUE, detail |-> WriteError, d |-> d]

\* open(NOTE_PATH, "w") then f.write(text), nothing in between: "w" truncates
\* on open, so a write that raises after the open leaves the file empty.
WriteNote(d, text, out) ==
    LET o == OpenForWrite(d, out # "open_raises") IN
    IF o.raised THEN o ELSE WriteAndClose(o.d, text, out = "ok")

\* A setup that seeds and commits the note file whether or not it exists.
setup_repo_AlwaysSeed(d, t, mkdirOk, initOut, seedOut, addOut, commitOut) ==
    IF ~d.dir /\ ~mkdirOk
    THEN [result |-> "raised", d |-> d, calls |-> <<>>, repo |-> Repo(d)]
    ELSE LET d1 == [d EXCEPT !.dir = TRUE] IN
         IF ~d1.git /\ initOut = "noexec"
         THEN [result |-> "raised", d |-> d1, calls |-> <<>>, repo |-> Repo(d1)]
         ELSE IF ~d1.git /\ initOut # "ok"
         THEN [result |-> "False", d |-> d1, calls |-> <<>>, repo |-> Repo(d1)]
         ELSE LET d2 == IF d1.git THEN d1 ELSE GitInit(d1)
                  w == WriteNote(d2, WELCOME, seedOut)
                  c == run_git_commit(w.d, INITIAL_MESSAGE, t, addOut, commitOut)
              IN  IF w.raised
                  THEN [result |-> "raised", d |-> w.d, calls |-> <<>>, repo |-> Repo(w.d)]
                  ELSE IF c.raised # "none"
                  THEN [result |-> "raised", d |-> c.d, calls |-> c.calls, repo |-> Repo(w.d)]
                  ELSE [result |-> "True", d |-> c.d, calls |-> c.calls, repo |-> Repo(w.d)]

\* setup_repo() at time t.  result is "True", "False" (git init exits
\* non-zero or the executable is not found), or "raised" when os.makedirs,
\* git init, the seeding write or run_git_commit raises an exception that is
\* not caught here; calls are the git subcommands run_git_commit invoked, and
\* repo is the repository as the last step of setup_repo found it.
setup_repo(d, t, mkdirOk, initOut, seedOut, addOut, commitOut) ==
    IF ~d.dir /\ ~mkdirOk
    THEN [result |-> "raised", d |-> d, calls |-> <<>>, repo |-> Repo(d)]
    ELSE LET d1 == [d EXCEPT !.dir = TRUE] IN
         IF ~d1.git /\ initOut = "noexec"
         THEN [result |-> "raised", d |-> d1, calls |-> <<>>, repo |-> Repo(d1)]
         ELSE IF ~d1.git /\ initOut # "ok"
         THEN [result |-> "False", d |-> d1, calls |-> <<>>, repo |-> Repo(d1)]
         ELSE LET d2 == IF d1.git THEN d1 ELSE GitInit(d1) IN
              IF d2.note # NoFile
              THEN [result |-> "True", d |-> d2, calls |-> <<>>, repo |-> Repo(d2)]
              ELSE LET w == WriteNote(d2, WELCOME, seedOut)
                       c == run_git_commit(w.d, INITIAL_MESSAGE, t, addOut, commitOut)
                   IN  IF w.raised
                       THEN [result |-> "raised", d |-> w.d, calls |-> <<>>, repo |-> Repo(w.d)]
                       ELSE IF c.raised # "none"
                       THEN [result |-> "raised", d |-> c.d, calls |-> c.calls, repo |-> Repo(w.d)]
                       ELSE [result |-> "True", d |-> c.d, calls |-> c.calls, repo |-> Repo(w.d)]

\* A module-level call that goes on to app.run whatever setup_repo() returns.
ProcessAfterSetup_NoExit(result) == [phase |-> "serving", exitCode |-> 0]

\* The module-level call: exit(1) when setup_repo() is false; an uncaught
\* exception ends the interpreter with status 1 as well.
ProcessAfterSetup(result) ==
    IF result = "True" THEN [phase |-> "serving", exitCode |-> 0]
    ELSE [phase |-> "exited", exitCode |-> 1]

\* f.read() on a file opened with open(NOTE_PATH, "r"): text mode reads every
\* CR LF pair and every lone CR as LF (on the texts of this model).
ReadText(text) == IF text = MarkedLine THEN "<a\n" ELSE text

\* Jinja2 autoescaping of {{ note_content }} (MarkupSafe: & < > ' " become
\* &amp; &lt; &gt; &#39; &#34;), on the texts of this model.
Escape(text) ==
    CASE text = "<a\n"     -> "&lt;a\n"
      [] text = MarkedLine -> "&lt;a\r\n"
      [] text = "Error loading file: " \o NoFileError ->
           "Error loading file: " \o NoFileErrorWith("&#39;")
      [] text = "Error loading file: " \o OpenError ->
           "Error loading file: " \o OpenErrorWith("&#39;")
      [] OTHER             -> text

\* index(): the note_content handed to the template, and the textarea body.
ReadNote(d, readOk) ==
    IF d.note = NoFile
    THEN "Error loading file: " \o NoFileError
    ELSE IF ~readOk THEN "Error loading file: " \o OpenError
    ELSE ReadText(Text(d.note))
index_view(d, readOk) ==
    LET content == ReadNote(d, readOk) IN
    [note_content |-> content, html |-> Escape(content)]

\* A handler that takes the missing field as Python's None, written "None".
FormContent_NoDefault(form) == IF form = NoField THEN "None" ELSE form[1]

\* request.form.get("content", "")
FormContent(form) == IF form = NoField THEN "" ELSE form[1]

\* What the client gets when an exception leaves the view function: no Save
\* Outcome but Flask's 500 page, which under debug=True shows the traceback.
Unhandled(exception, detail) ==
    [status |-> "500 INTERNAL SERVER ERROR", message |-> "Traceback: " \o exception \o ": " \o detail]

\* Line 119: the response of the except branch around the write.
WriteFailed(detail) == [status |-> "error", message |-> "File write failed: " \o detail]

\* Lines 122-124: the response after run_git_commit returned `ret`, or after
\* the exception `raised` left it.
Answered(ret, raised) ==
    IF raised # "none" THEN Unhandled(raised, ExecError)
    ELSE [status |-> "success", message |-> ret]

\* save_and_commit() for one request at time t, no other handler running: the
\* JSON response, the disk after, the git subcommands invoked, and the
\* repository as they found it.
save_and_commit(d, form, t, writeOut, addOut, commitOut) ==
    LET new_content == FormContent(form)
        timestamp == YMDHMS(t)
        commit_message == "Autosave: " \o timestamp
        w == WriteNote(d, new_content, writeOut)
    IN  IF w.raised
        THEN [resp |-> WriteFailed(w.detail), d |-> w.d, calls |-> <<>>, repo |-> Repo(w.d)]
        ELSE LET r == run_git_commit(w.d, commit_message, t, addOut, commitOut) IN
             [resp |-> Answered(r.ret, r.raised), d |-> r.d, calls |-> r.calls, repo |-> Repo(w.d)]

\* The server has started on an empty directory.
FreshDisk == [dir |-> FALSE, git |-> FALSE, note |-> NoFile, index |-> NoFile, history |-> <<>>]
Booted == setup_repo(FreshDisk, 0, TRUE, "ok", "ok", "ok", "ok")

\* ------------------------------------------------------------------ Init
\* A process not yet started, on any disk the first start can find: the
\* directory absent, present without .git, or with an empty repository; the
\* note file present or absent.
NoOp == [op |-> "none"]

\* No page is open.
PageNotLoaded ==
    /\ now = 0
    /\ editorValue = ""
    /\ saveTimer = 0
    /\ timers = {}
    /\ nextId = 1
    /\ events = <<>>
    /\ typed = ""

Init ==
    /\ dirExists \in BOOLEAN
    /\ gitDir \in BOOLEAN
    /\ noteFile \in {NoFile, File("a")}
    /\ (gitDir => dirExists)
    /\ (noteFile # NoFile => dirExists)
    /\ index = NoFile
    /\ history = <<>>
    /\ phase = "new"
    /\ exitCode = 0
    /\ last = NoOp
    /\ prev = NoOp
    /\ PageNotLoaded
    /\ inflight = <<>>

\* --------------------------------------------------------------- actions
SetDisk(d) ==
    /\ dirExists' = d.dir
    /\ gitDir' = d.git
    /\ noteFile' = d.note
    /\ index' = d.index
    /\ history' = d.history

\* The times time.strftime can read.
Times == 0..MaxClock

\* The outcomes of the git calls of one run of run_git_commit: `git add`
\* ends any of the ways a git call can, and `git commit` runs only after it
\* succeeded.
GitRuns == {<<a, c>> \in GitOutcomes \X GitOutcomes : a # "ok" => c = "ok"}

\* What `prev` keeps of an operation: all of a start and of a save whose
\* write and git calls succeeded, the kind of any other.
Summary(r) ==
    IF r.op = "start" \/ (r.op = "save" /\ r.writeOut = "ok" /\ r.addOut = "ok" /\ r.commitOut = "ok")
    THEN r
    ELSE [op |-> r.op]

\* `python run.py`: the module-level setup, then app.run or exit.  gitExe
\* tells whether a git executable is on the PATH during this start.
Start ==
    /\ phase \in {"new", "stopped", "exited"}
    /\ \E gitExe \in BOOLEAN, mkdirOk \in BOOLEAN, seedOut \in WriteOutcomes,
          initRc \in {"ok", "fail", "noexec"}, git \in GitRuns, t \in Times :
         LET run(rc) == IF gitExe THEN rc ELSE "nogit"
             initTried == (dirExists \/ mkdirOk) /\ ~gitDir
             r == setup_repo(Disk, t, mkdirOk, run(initRc), seedOut, run(git[1]), run(git[2]))
             p == ProcessAfterSetup(r.result)
         IN  /\ "nogit" \notin {git[1], git[2]}
             \* an input the run does not read is left at its first value
             /\ dirExists => mkdirOk
             /\ (gitDir \/ ~gitExe \/ ~mkdirOk) => initRc = "ok"
             /\ (noteFile # NoFile \/ ~mkdirOk \/ (~gitDir /\ run(initRc) # "ok")) =>
                    seedOut = "ok" /\ git = <<"ok", "ok">> /\ t = 0
             /\ seedOut # "ok" => git = <<"ok", "ok">> /\ t = 0
             /\ SetDisk(r.d)
             /\ phase' = p.phase
             /\ exitCode' = p.exitCode
             /\ last' = [op |-> "start", result |-> r.result, gitExe |-> gitExe,
                         initTried |-> initTried,
                         initOut |-> IF initTried THEN run(initRc) ELSE "ok",
                         fresh |-> ~dirExists, from |-> phase, before |-> history,
                         calls |-> r.calls, repo |-> r.repo]
    /\ prev' = Summary(last)
    /\ UNCHANGED <<pageVars, raceVars>>

\* GET /, whatever the save requests in progress have done so far.
Get ==
    /\ phase = "serving"
    /\ \E readOk \in BOOLEAN :
         \* open() of a file that is not there raises whatever the permissions
         /\ noteFile = NoFile => readOk
         /\ last' = [op |-> "get", readOk |-> readOk, view |-> index_view(Disk, readOk)]
    /\ prev' = Summary(last)
    /\ UNCHANGED <<dirExists, gitDir, noteFile, index, history, phase, exitCode>>
    /\ UNCHANGED <<pageVars, raceVars>>

\* ------------------------------------------------------------ POST /save
\* app.run serves each request in a thread of its own, and save_and_commit
\* waits on the file system and on two git child processes, so a request is
\* handled in steps that other requests (GET / and POST /save) fall between:
\* reading the form and the time, open(), the write that reaches the file
\* when the `with` block closes it, git add, git commit.  Nothing in run.py
\* orders the steps of two handlers.

\* A request as the client sent it, not yet received.  The handler fills in
\* the time it read (t), the history it found (before), how its write ended
\* (writeOut) and the repository as git add found it (repo).  alone: no other
\* save request has been in flight with it; peer: whether the latest save
\* request answered while this one was in flight was sent before it ("older")
\* or after it ("newer").
Sent(form, alone) ==
    [pc |-> "sent", form |-> form, t |-> 0, before |-> <<>>, alone |-> alone, peer |-> "none",
     writeOut |-> "ok", repo |-> [dir |-> FALSE, git |-> FALSE]]

\* The client sends a save request (fetch('/save', POST)); the requests
\* already in flight are no longer alone.
Send ==
    /\ phase = "serving"
    /\ Len(inflight) < MaxInflight
    /\ Len(history) < MaxCommits
    /\ \E form \in Forms :
         inflight' = Append([j \in 1..Len(inflight) |-> [inflight[j] EXCEPT !.alone = FALSE]],
                            Sent(form, inflight = <<>>))
    /\ UNCHANGED <<serverVars, pageVars>>

\* The requests still in flight once request i is answered.
Others(i) ==
    [j \in 1..(Len(inflight) - 1) |->
        IF j < i THEN [inflight[j] EXCEPT !.peer = "newer"]
        ELSE [inflight[j + 1] EXCEPT !.peer = "older"]]

\* Request i ends with this response; the record keeps what it met, the
\* number of commits its last step added and, if any, the position of the
\* commit it made.
Respond(i, resp, writeOut, addOut, commitOut, calls, repo, after) ==
    /\ last' = [op |-> "save", form |-> inflight[i].form,
                writeOut |-> writeOut, addOut |-> addOut, commitOut |-> commitOut,
                resp |-> resp, calls |-> calls, repo |-> repo,
                before |-> inflight[i].before, after |-> after,
                added |-> Len(after) - Len(history),
                made |-> IF Len(after) > Len(history) THEN Len(after) ELSE 0,
                alone |-> inflight[i].alone, peer |-> inflight[i].peer]
    /\ prev' = Summary(last)
    /\ inflight' = Others(i)

\* Request i goes on to its next step.
Goto(i, pc) ==
    /\ inflight' = [inflight EXCEPT ![i].pc = pc]
    /\ UNCHANGED <<last, prev>>

\* Lines 110-112: the handler reads the form and the time.
Receive(i) ==
    /\ inflight[i].pc = "sent"
    /\ \E t \in Times :
         inflight' = [inflight EXCEPT ![i].pc = "open", ![i].t = t, ![i].before = history]
    /\ UNCHANGED <<serverVars, pageVars>>

\* Line 116, open(NOTE_PATH, "w"): the file is truncated, or open raises and
\* the except branch answers.
OpenNote(i) ==
    /\ inflight[i].pc = "open"
    /\ \E ok \in BOOLEAN :
         LET o == OpenForWrite(Disk, ok) IN
         /\ SetDisk(o.d)
         /\ IF o.raised
            THEN Respond(i, WriteFailed(o.detail), "open_raises", "ok", "ok", <<>>, Repo(o.d), o.d.history)
            ELSE Goto(i, "write")
    /\ UNCHANGED <<phase, exitCode>>
    /\ UNCHANGED pageVars

\* Lines 116-119, f.write(new_content) and the close of the file: the text
\* reaches the file, or the write raises and the except branch answers.
WriteText(i) ==
    /\ inflight[i].pc = "write"
    /\ \E ok \in BOOLEAN :
         LET w == WriteAndClose(Disk, FormContent(inflight[i].form), ok) IN
         /\ SetDisk(w.d)
         /\ IF w.raised
            THEN Respond(i, WriteFailed(w.detail), "write_raises", "ok", "ok", <<>>, Repo(w.d), w.d.history)
            ELSE /\ inflight' = [inflight EXCEPT ![i].pc = "add",
                                                 ![i].writeOut = IF ok THEN "ok" ELSE "write_raises"]
                 /\ UNCHANGED <<last, prev>>
    /\ UNCHANGED <<phase, exitCode>>
    /\ UNCHANGED pageVars

\* run_git_commit, first call: git add .  The handler is answered here when
\* the call fails.
AddStep(i) ==
    /\ inflight[i].pc = "add"
    /\ \E out \in GitOutcomes :
         LET a == StageAll(Disk, out) IN
         /\ SetDisk(a.d)
         /\ IF a.done
            THEN Respond(i, Answered(a.ret, a.raised), inflight[i].writeOut, out, "ok", <<"add">>,
                         Repo(Disk), a.d.history)
            ELSE /\ inflight' = [inflight EXCEPT ![i].pc = "commit", ![i].repo = Repo(Disk)]
                 /\ UNCHANGED <<last, prev>>
    /\ UNCHANGED <<phase, exitCode>>
    /\ UNCHANGED pageVars

\* run_git_commit, second call: git commit -m, and the string returned.
CommitStep(i) ==
    /\ inflight[i].pc = "commit"
    /\ \E out \in GitOutcomes :
         LET message == "Autosave: " \o YMDHMS(inflight[i].t)
             c == CommitStaged(Disk, message, inflight[i].t, out)
         IN  /\ SetDisk(c.d)
             /\ Respond(i, Answered(c.ret, c.raised), inflight[i].writeOut, "ok", out, <<"add", "commit">>,
                        [dir |-> inflight[i].repo.dir /\ dirExists, git |-> inflight[i].repo.git /\ gitDir],
                        c.d.history)
    /\ UNCHANGED <<phase, exitCode>>
    /\ UNCHANGED pageVars

\* The git child process of a handler, left running when the server process
\* ends under it: it keeps the commit message it was given, and no handler
\* waits for it.
Child(r) ==
    [Sent(NoField, FALSE) EXCEPT !.pc = IF r.pc = "add" THEN "git_add" ELSE "git_commit",
                                 !.t = IF r.pc = "add" THEN 0 ELSE r.t]
IsChild(r) == r.pc \in {"git_add", "git_commit"}

\* The server process is stopped (the signal reaches it): its handlers end
\* where they are and the disk stays.  subprocess.run has started the git
\* child of a handler that waits on git add or git commit; the child ends
\* with the server (Ctrl-C reaches the whole process group) or, when the
\* signal reaches the server alone, runs on.
Stop ==
    /\ phase = "serving"
    /\ phase' = "stopped"
    /\ \E runsOn \in [1..Len(inflight) -> BOOLEAN] :
         LET left == [j \in 1..Len(inflight) |->
                        IF inflight[j].pc \in {"add", "commit"} /\ runsOn[j] THEN Child(inflight[j])
                        ELSE inflight[j]]
         IN  /\ \A j \in 1..Len(inflight) : inflight[j].pc \notin {"add", "commit"} => runsOn[j]
             /\ inflight' = SelectSeq(left, IsChild)
    /\ UNCHANGED <<dirExists, gitDir, noteFile, index, history, exitCode, last, prev>>
    /\ UNCHANGED pageVars

\* inflight without its entry i.
Without(i) == [j \in 1..(Len(inflight) - 1) |-> IF j < i THEN inflight[j] ELSE inflight[j + 1]]

\* A git child that outlived its server ends: git add stages the working
\* tree, git commit records the index, or git exits non-zero; nothing reads
\* its exit status.
ChildStep(i) ==
    /\ IsChild(inflight[i])
    /\ \E out \in {"ok", "fail"} :
         LET call == IF inflight[i].pc = "git_add" THEN "add" ELSE "commit"
             d == IF call = "add" THEN GitAdd(Disk, out).d
                  ELSE GitCommit(Disk, "Autosave: " \o YMDHMS(inflight[i].t), out).d
         IN  /\ SetDisk(d)
             /\ last' = [op |-> "child", out |-> out, calls |-> <<call>>, repo |-> Repo(Disk),
                         before |-> history, after |-> d.history]
    /\ prev' = Summary(last)
    /\ inflight' = Without(i)
    /\ UNCHANGED <<phase, exitCode>>
    /\ UNCHANGED pageVars

\* A step of any request in flight, or of a git child left behind.
AnyReceive == \E i \in 1..Len(inflight) : Receive(i)
AnyOpenNote == \E i \in 1..Len(inflight) : OpenNote(i)
AnyWriteText == \E i \in 1..Len(inflight) : WriteText(i)
AnyAddStep == \E i \in 1..Len(inflight) : AddStep(i)
AnyCommitStep == \E i \in 1..Len(inflight) : CommitStep(i)
AnyChildStep == \E i \in 1..Len(inflight) : ChildStep(i)

Next ==
    \/ Start \/ Stop \/ Get \/ Send
    \/ AnyReceive \/ AnyOpenNote \/ AnyWriteText \/ AnyAddStep \/ AnyCommitStep
    \/ AnyChildStep

Spec == Init /\ [][Next]_vars

\* The server is up on a fresh repository and the client has sent two save
\* requests, the first still in flight when the second is sent.
RaceInit ==
    /\ dirExists = Booted.d.dir
    /\ gitDir = Booted.d.git
    /\ noteFile = Booted.d.note
    /\ index = Booted.d.index
    /\ history = Booted.d.history
    /\ phase = ProcessAfterSetup(Booted.result).phase
    /\ exitCode = 0
    /\ last = NoOp
    /\ prev = NoOp
    /\ PageNotLoaded
    /\ \E first \in Forms, second \in Forms : inflight = <<Sent(first, FALSE), Sent(second, FALSE)>>

\* The two requests are handled, and the page is fetched, in any order.
RaceNext == Get \/ AnyReceive \/ AnyOpenNote \/ AnyWriteText \/ AnyAddStep \/ AnyCommitStep

RaceSpec == RaceInit /\ [][RaceNext]_vars

\* ---------------------------------------------------------------- the page
\* The page's script (the <script> of HTML_TEMPLATE): one textarea, one
\* saveTimer, and the browser's list of pending timeouts.

\* The value the browser gives the textarea whose body is `html`.
TextareaValue(html) ==
    CASE html = "&lt;a\n"     -> "<a\n"
      [] html = "&lt;a\r\n" -> "<a\n"
      [] html = "Error loading file: " \o NoFileErrorWith("&#39;") ->
           "Error loading file: " \o NoFileError
      [] html = "Error loading file: " \o OpenErrorWith("&#39;") ->
           "Error loading file: " \o OpenError
      [] OTHER                -> html

\* A clearTimeout that cancels nothing.
ClearTimeout_Nothing(ts, id) == ts

\* clearTimeout(id)
ClearTimeout(ts, id) == {tm \in ts : tm.id # id}

\* A listener that sets the new timeout without clearing the old one.
KeyUpTimers_NoClear(ts, st, id, t) == ts \cup {[id |-> id, due |-> t + SAVE_DELAY_MS]}

\* The keyup listener's effect on the pending timeouts: clear the timer that
\* saveTimer names, if any, then setTimeout(saveContent, SAVE_DELAY_MS).
KeyUpTimers(ts, st, id, t) ==
    (IF st # 0 THEN ClearTimeout(ts, st) ELSE ts) \cup {[id |-> id, due |-> t + SAVE_DELAY_MS]}

\* The server has started on an empty directory and the page has been loaded.

PageInit ==
    LET view == index_view(Booted.d, TRUE) IN
    /\ dirExists = Booted.d.dir
    /\ gitDir = Booted.d.git
    /\ noteFile = Booted.d.note
    /\ index = Booted.d.index
    /\ history = Booted.d.history
    /\ phase = ProcessAfterSetup(Booted.result).phase
    /\ exitCode = 0
    /\ last = [op |-> "get", readOk |-> TRUE, view |-> view]
    /\ prev = [op |-> "start", result |-> Booted.result, gitExe |-> TRUE, initTried |-> TRUE,
               fresh |-> TRUE, from |-> "new", before |-> <<>>, initOut |-> "ok",
               calls |-> Booted.calls, repo |-> Booted.repo]
    /\ now = 0
    /\ editorValue = TextareaValue(view.html)
    /\ saveTimer = 0
    /\ timers = {}
    /\ nextId = 1
    /\ events = <<>>
    /\ typed = TextareaValue(view.html)
    /\ inflight = <<>>

KeyUps == SelectSeq(events, LAMBDA e : e.kind = "keyup")
Requests == SelectSeq(events, LAMBDA e : e.kind = "save")

\* The user changes the text of the editor (a key goes down).
Input ==
    /\ \E c \in EditorValues : c # editorValue /\ editorValue' = c
    /\ UNCHANGED <<now, saveTimer, timers, nextId, events, typed>>
    /\ UNCHANGED <<serverVars, raceVars>>

\* A key comes up: the keyup listener runs.
KeyUp ==
    /\ Len(KeyUps) < MaxKeys
    /\ now + SAVE_DELAY_MS <= MaxTicks * Quantum
    /\ timers' = KeyUpTimers(timers, saveTimer, nextId, now)
    /\ saveTimer' = nextId
    /\ nextId' = nextId + 1
    /\ events' = Append(events, [kind |-> "keyup", at |-> now])
    /\ typed' = editorValue
    /\ UNCHANGED <<now, editorValue>>
    /\ UNCHANGED <<serverVars, raceVars>>

\* A saveContent that sends the text the latest keyup event found.
RequestContent_AtKeyUp(current, atKeyUp) == atKeyUp

\* `const content = editor.value`, read when saveContent runs.
RequestContent(current, atKeyUp) == current

\* saveContent(): the request it sends carries that content.
saveContent(value, t, id) == [kind |-> "save", at |-> t, value |-> value, timer |-> id]

\* A pending timeout whose delay has elapsed runs its callback, saveContent.
TimerFire ==
    /\ \E tm \in timers :
         /\ tm.due <= now
         /\ timers' = timers \ {tm}
         /\ events' = Append(events, saveContent(RequestContent(editorValue, typed), now, tm.id))
    /\ UNCHANGED <<now, editorValue, saveTimer, nextId, typed>>
    /\ UNCHANGED <<serverVars, raceVars>>

\* Time passes on the page; a timeout that is due may still be waiting.
Advance ==
    /\ now < MaxTicks * Quantum
    /\ now' = now + Quantum
    /\ UNCHANGED <<editorValue, saveTimer, timers, nextId, events, typed>>
    /\ UNCHANGED <<serverVars, raceVars>>

PageNext == Input \/ KeyUp \/ TimerFire \/ Advance

\* The browser's event loop runs every timeout that is due, and time passes.
PageSpec == PageInit /\ [][PageNext]_vars /\ WF_vars(TimerFire) /\ WF_vars(Advance)

\* ------------------------------------------------------------------ claims

\* The position of the latest keyup event before position j of events, or 0.
LastKeyUpBefore(j) ==
    LET is == {i \in 1..(j - 1) : events[i].kind = "keyup"} IN
    IF is = {} THEN 0 ELSE CHOOSE i \in is : \A k \in is : k <= i
SavesBetween(i, j) == {k \in (i + 1)..(j - 1) : events[k].kind = "save"}
SavesAfter(i) == {k \in (i + 1)..Len(events) : events[k].kind = "save"}
LastKeyUp == LastKeyUpBefore(Len(events) + 1)

\* Every save request follows a keyup event, is sent no sooner than the idle
\* delay after the latest keyup event, and is the only one sent since it.
SaveAfterIdleDelay ==
    \A j \in 1..Len(events) :
        events[j].kind = "save" =>
            LET i == LastKeyUpBefore(j) IN
            /\ i > 0
            /\ events[j].at >= events[i].at + SAVE_DELAY_MS
            /\ SavesBetween(i, j) = {}

\* No save request is sent between two keyup events of a burst (two
\* successive keyup events less than the idle delay apart).
NoSaveInsideBurst ==
    \A j \in 1..Len(events) :
        LET i == LastKeyUpBefore(j) IN
        (events[j].kind = "keyup" /\ i > 0 /\ events[j].at - events[i].at < SAVE_DELAY_MS)
            => SavesBetween(i, j) = {}

\* Once n keyup events have occurred, either another keyup event follows or
\* a save request is sent after the n-th.
SaveFollowsSilence ==
    \A n \in 1..MaxKeys :
        (Len(KeyUps) = n) ~> (Len(KeyUps) > n \/ SavesAfter(LastKeyUp) # {})

\* C1 (debounce): a burst of N >= 1 keyup events, each less than the idle
\* delay (2000 ms) after the previous one and followed by no further keyup
\* event, leads to exactly one save request, sent once the idle delay has
\* elapsed since the last event of the burst; none is sent between the first
\* and the last event of the burst.
C1_Debounce ==
    /\ [](SaveAfterIdleDelay /\ NoSaveInsideBurst)
    /\ SaveFollowsSilence

\* A burst of two keyup events less than the idle delay apart has been
\* followed by its save request.
C1_Witness ==
    \E j \in 1..Len(events) :
        LET i == LastKeyUpBefore(j)
            h == LastKeyUpBefore(i)
        IN  /\ events[j].kind = "save"
            /\ i > 0 /\ h > 0
            /\ events[i].at - events[h].at < SAVE_DELAY_MS
            /\ events[i].at > events[h].at

\* ------------------------------------------------- claims about the server
IsPrefix(s, t) == Len(s) <= Len(t) /\ SubSeq(t, 1, Len(s)) = s

\* The two responses of run_git_commit the specification calls Committed and
\* NoChanges, at any time of day the model reads.
CommittedMessages == {"Change committed successfully! (Autosave: " \o YMDHMS(t) \o ")" : t \in Times}
NoChangesMessages == {"No changes detected (Autosave attempted at " \o HMS(t) \o ")." : t \in Times}

\* The server is up and neither a save request nor a git child left behind
\* is in flight: no step has touched the disk since the latest operation
\* ended (a request cut short by a stop is followed by a start).
Quiet == phase = "serving" /\ inflight = <<>>

\* The operation is a save request whose write and git calls succeeded.
CleanSave(r) == r.op = "save" /\ r.writeOut = "ok" /\ r.addOut = "ok" /\ r.commitOut = "ok"
\* The two latest operations are save requests, one answered before the
\* other was sent and neither overlapping any other, whose writes and git
\* calls all succeeded.
TwoCleanSaves ==
    /\ CleanSave(last) /\ last.alone
    /\ prev.op = "save" /\ "form" \in DOMAIN prev /\ prev.alone

\* C2: two consecutive save requests carrying the same content, git working
\* normally, are answered Committed ('Change committed successfully! (...)')
\* and then NoChanges ('No changes detected (Autosave attempted at
\* HH:MM:SS).', status success); NoChanges is not reported as a failure.
C2_SameContentTwice ==
    (TwoCleanSaves /\ FormContent(prev.form) = FormContent(last.form)) =>
        /\ prev.resp.status = "success"
        /\ prev.resp.message \in CommittedMessages
        /\ last.resp.status = "success"
        /\ last.resp.message \in NoChangesMessages

\* C3 as stated: a save of C1 followed by a save of C2 # C1 appends two
\* commits, C1's then C2's, whatever the note held before.
C3_TwoCommitsWhateverBefore ==
    (TwoCleanSaves /\ FormContent(prev.form) # FormContent(last.form)) =>
        /\ Len(last.after) = Len(prev.before) + 2
        /\ IsPrefix(prev.before, last.after)
        /\ last.after[Len(prev.before) + 1].tree = File(FormContent(prev.form))
        /\ last.after[Len(prev.before) + 2].tree = File(FormContent(last.form))

\* C3, amended: when the writes and git calls of both requests succeed, no
\* other save request overlaps them, and the latest commit before the first
\* request does not already hold C1, a save of C1 followed by a save of
\* C2 # C1 appends two distinct commits to the history, the commit of C1
\* before the commit of C2.
C3_TwoCommits ==
    (/\ TwoCleanSaves
     /\ FormContent(prev.form) # FormContent(last.form)
     /\ HeadTree(prev.before) # File(FormContent(prev.form))) =>
        /\ Len(last.after) = Len(prev.before) + 2
        /\ IsPrefix(prev.before, last.after)
        /\ last.after[Len(prev.before) + 1].tree = File(FormContent(prev.form))
        /\ last.after[Len(prev.before) + 2].tree = File(FormContent(last.form))
        /\ prev.after = SubSeq(last.after, 1, Len(prev.before) + 1)
        /\ history = last.after

\* Two saves of different contents have appended their two commits.
C3_Witness ==
    /\ TwoCleanSaves
    /\ FormContent(prev.form) # FormContent(last.form)
    /\ HeadTree(prev.before) # File(FormContent(prev.form))
    /\ Len(history) = Len(prev.before) + 2

\* C4: a save request whose note-file write fails answers {status: error,
\* message: 'File write failed: <detail>'}, invokes neither git add nor git
\* commit, and adds no commit: the history it leaves is the history it found
\* (with, at the end, the commits of the requests that overlapped it).
C4_WriteFailure ==
    (last.op = "save" /\ last.writeOut # "ok") =>
        /\ last.resp.status = "error"
        /\ last.resp.message \in {"File write failed: " \o OpenError, "File write failed: " \o WriteError}
        /\ last.calls = <<>>
        /\ last.added = 0
        /\ IsPrefix(last.before, last.after)
        /\ last.alone => last.after = last.before
        /\ history = last.after

\* A write has failed after a commit was made, so there is a history to keep,
\* and the file it truncated is left uncommitted.
C4_Witness ==
    /\ last.op = "save" /\ last.alone
    /\ last.writeOut = "write_raises"
    /\ last.before # <<>>
    /\ Quiet
    /\ noteFile # HeadTree(history)

\* The save request met a git failure other than "nothing to commit": git add
\* or git commit exited non-zero, or the executable was not found.
GitFailure(r) ==
    /\ r.op = "save" /\ r.writeOut = "ok"
    /\ (r.addOut \in {"fail", "nogit"} \/ r.commitOut \in {"fail", "nogit"})

\* C5 as stated: every such failure (staging, commit, executable missing) is
\* answered {status: success, message: 'Git Commit Failed: <detail>'}.
C5_AlwaysGitCommitFailed ==
    GitFailure(last) =>
        /\ phase # "exited"
        /\ last.resp.status = "success"
        /\ last.resp.message \in
             {"Git Commit Failed: " \o detail :
                 detail \in {"", CommitStderr, CommitStderrBody, AddStderr, "Git executable not found."}}

\* C5, amended: a git failure other than "nothing to commit" during a save
\* request is not fatal (the process keeps serving) and is answered with
\* status success and a message naming the failure: 'Git Commit Failed:
\* <stderr, stripped>' when git commit exits non-zero, 'System error during
\* Git operation: <stderr>' when git add exits non-zero, and 'System error:
\* Git executable not found.' when the executable is missing.
C5_GitFailureReported ==
    GitFailure(last) =>
        /\ phase # "exited"
        /\ exitCode = 0
        /\ last.resp.status = "success"
        /\ last.resp.message =
             CASE last.addOut = "fail"     -> "System error during Git operation: " \o AddStderr
               [] last.addOut = "nogit"    -> "System error: Git executable not found."
               [] last.commitOut = "nogit" -> "System error: Git executable not found."
               [] OTHER                    -> "Git Commit Failed: " \o CommitStderrBody
        /\ last.added = 0
        /\ last.alone => last.after = last.before

\* A git commit has failed during a save request, and the server goes on to
\* take the next request.
C5_Witness ==
    /\ GitFailure(last)
    /\ last.commitOut = "fail"
    /\ phase = "serving"
    /\ ENABLED Send
    /\ ENABLED Get

\* The commits of h labeled as the initial setup.
InitialCommits(h) == {i \in 1..Len(h) : h[i].message = INITIAL_MESSAGE}

\* C6 as stated: after any previous bootstrap, setup_repo returns success
\* again and the history holds at most one initial-setup commit.
C6_RerunNeverFails ==
    /\ (last.op = "start" /\ last.from # "new") => last.result = "True"
    /\ Cardinality(InitialCommits(history)) <= 1

\* C6, amended: from any state reached by a previous bootstrap that returned
\* success, running setup_repo again, any number of times, returns success
\* and adds no commit; the history never holds more than one commit labeled
\* as the initial setup.
C6_BootstrapIdempotent ==
    /\ (last.op = "start" /\ last.from = "stopped") =>
           /\ last.result = "True"
           /\ phase # "exited"
           /\ history = last.before
    /\ Cardinality(InitialCommits(history)) <= 1

\* setup_repo has run a third time in a row on a repository that holds the
\* initial-setup commit.
C6_Witness ==
    /\ last.op = "start" /\ last.from = "stopped"
    /\ prev.op = "start" /\ prev.from = "stopped"
    /\ Cardinality(InitialCommits(history)) = 1

\* C7: when the git executable is unavailable at startup, or git init fails,
\* bootstrap fails and the process exits with non-zero status before any
\* request is served, on every starting disk.
C7_NoGitNoStart ==
    (last.op = "start" /\ (~last.gitExe \/ last.initOut # "ok")) =>
        /\ last.result # "True"
        /\ phase = "exited"
        /\ exitCode # 0
        /\ ~ENABLED Get
        /\ ~ENABLED Send

\* C8: on a fresh disk (no repository directory), a bootstrap that reports
\* success leaves the directory created, git initialized, the note file
\* holding the welcome text and exactly one commit in the history; the GET /
\* issued next (no save request sent before it) returns the welcome text.
C8_FreshBootstrap ==
    /\ (last.op = "start" /\ last.fresh /\ last.result = "True") =>
           /\ dirExists /\ gitDir
           /\ noteFile = File(WELCOME)
           /\ Len(history) = 1
           /\ history[1] = [message |-> INITIAL_MESSAGE, tree |-> File(WELCOME)]
    /\ (last.op = "get" /\ prev.op = "start" /\ prev.fresh /\ prev.result = "True" /\ Quiet) =>
           /\ last.view.note_content = WELCOME
           /\ TextareaValue(last.view.html) = WELCOME

\* C9 as stated: every save request answered with status success has added
\* exactly one commit (here: a request that overlapped no other).
C9_SuccessMeansCommit ==
    (last.op = "save" /\ last.alone /\ last.resp.status = "success") =>
        Len(last.after) = Len(last.before) + 1

\* C9, amended: a save request answered 'Change committed successfully!
\* (...)' has created exactly one commit, the one its git commit appended
\* (so, when no other save request overlaps it, the number of commits after
\* it is the number before it plus one); a save request answered anything
\* else, also with status success, has created none.
C9_CommittedMeansCommit ==
    last.op = "save" =>
        /\ history = last.after
        /\ IsPrefix(last.before, last.after)
        /\ last.alone => Len(last.after) = Len(last.before) + last.added
        /\ IF last.resp.message \in CommittedMessages
           THEN /\ last.resp.status = "success"
                /\ last.added = 1
                /\ last.made = Len(last.after)
           ELSE last.added = 0

\* A save request has been answered Committed on top of an earlier commit.
C9_Witness ==
    /\ last.op = "save" /\ last.alone
    /\ last.resp.message \in CommittedMessages
    /\ last.before # <<>>
    /\ Len(history) = Len(last.before) + 1

\* C10: the commit history is append-only and linear: every step of the
\* system (bootstrap, GET /, every step of a POST /save, whatever fails in
\* it) leaves the commits it found in place and in order, adding zero or more
\* at the end.
C10_AppendOnly == [][IsPrefix(history, history')]_vars

\* Commits have been appended to a history that already held commits.
C10_Witness ==
    /\ Len(history) >= 2
    /\ last.op = "save"
    /\ Len(last.after) > Len(last.before)
    /\ last.before # <<>>

\* The commit messages save_and_commit builds, at the times the model reads.
AutosaveMessages == {"Autosave: " \o YMDHMS(t) : t \in Times}

\* The latest operation is a save request without a content field, no other
\* overlapping it, whose write and git calls succeeded, and no request has
\* been sent since.
CleanSaveNoField == CleanSave(last) /\ last.alone /\ last.form = NoField /\ Quiet

\* C11: a save request with no content field is handled as a save request
\* with content "": on every disk and for every outcome of the write and of
\* git, save_and_commit gives the same response, disk and git calls for both;
\* when they succeed the request is not an error, the note file becomes
\* empty, the latest commit holds the empty note, and that commit is created
\* by this request when the latest commit before it held a non-empty note.
C11_MissingFieldIsEmpty ==
    /\ phase = "serving" =>
         \A writeOut \in WriteOutcomes, git \in GitRuns, t \in Times :
             save_and_commit(Disk, NoField, t, writeOut, git[1], git[2])
               = save_and_commit(Disk, <<"">>, t, writeOut, git[1], git[2])
    /\ CleanSaveNoField =>
         /\ last.resp.status = "success"
         /\ noteFile = File("")
         /\ HeadTree(history) = File("")
         /\ HeadTree(last.before) # File("") =>
              /\ last.resp.message \in CommittedMessages
              /\ \E m \in AutosaveMessages :
                   history = Append(last.before, [message |-> m, tree |-> File("")])

\* A request without a content field has emptied a note that held text, and
\* its commit has been added.
C11_Witness ==
    /\ CleanSaveNoField
    /\ HeadTree(last.before) = File(MarkedLine)
    /\ Len(history) = Len(last.before) + 1
    /\ noteFile = File("")

\* The latest operation is a save request whose write succeeded, no other
\* save request overlapping it, and no request has been sent since.
WrittenSave == last.op = "save" /\ last.writeOut = "ok" /\ last.alone /\ Quiet
\* This step is a GET / that reads the note right after such a save request.
GetAfterWrittenSave == WrittenSave /\ last'.op = "get" /\ last'.readOk

\* C12: after a save request with content X whose write succeeded (no other
\* save request overlapping it) the note file holds exactly X, and the GET /
\* issued next, its read succeeding, renders X.
C12_GetRendersPosted ==
    /\ [](WrittenSave => noteFile = File(FormContent(last.form)))
    /\ [][GetAfterWrittenSave =>
            /\ last'.view.note_content = FormContent(last.form)
            /\ TextareaValue(last'.view.html) = FormContent(last.form)]_vars

\* The operation invoked git add or git commit.
CommitAttempted(r) ==
    /\ r.op \in {"start", "save", "child"}
    /\ \E i \in 1..Len(r.calls) : r.calls[i] \in {"add", "commit"}

\* C13: git add / git commit are never invoked while the repository
\* directory or its .git metadata is missing: the initial commit of a
\* bootstrap and the commit of every save request find both in place, a
\* request is served only when both exist, and commits exist only then.
C13_RepoBeforeCommit ==
    /\ CommitAttempted(last) => (last.repo.dir /\ last.repo.git)
    /\ \A i \in 1..Len(inflight) :
         inflight[i].pc = "commit" => (inflight[i].repo.dir /\ inflight[i].repo.git)
    /\ phase = "serving" => (dirExists /\ gitDir)
    /\ history # <<>> => (dirExists /\ gitDir)

\* A bootstrap on a disk without the directory has created it, initialized
\* git and then made the initial commit.
C13_Witness ==
    /\ last.op = "start" /\ last.fresh
    /\ last.calls = <<"add", "commit">>
    /\ last.repo = [dir |-> TRUE, git |-> TRUE]
    /\ Len(history) = 1

\* C14: every save request ends with a Save Outcome {status: success | error,
\* message}, whatever the write and the git calls do; none ends with an
\* exception that leaves the handler.
C14_AlwaysStructured ==
    last.op = "save" => last.resp.status \in {"success", "error"}

\* The number of keyup events before position j of events; the k-th keyup
\* event starts the timeout with id k.
KeyUpsBefore(j) == Cardinality({i \in 1..(j - 1) : events[i].kind = "keyup"})

\* C15: the debouncer is a single-slot timer.  At most one timeout is pending
\* and it is the one saveTimer names; a keyup event leaves pending only the
\* timeout it starts; and every save request is sent by the timeout of the
\* latest keyup event, never by one that a later keyup event superseded.
C15_SingleSlot ==
    /\ [](/\ Cardinality(timers) <= 1
          /\ \A tm \in timers : tm.id = saveTimer
          /\ \A j \in 1..Len(events) :
                events[j].kind = "save" => events[j].timer = KeyUpsBefore(j))
    /\ [][Len(events') > Len(events) /\ events'[Len(events')].kind = "keyup" =>
            timers' = {[id |-> saveTimer', due |-> now + SAVE_DELAY_MS]}]_vars

\* A keyup event has superseded a pending timeout, and the timeout it started
\* has sent the only save request.
C15_Witness ==
    /\ Len(Requests) = 1
    /\ Requests[1].timer = 2
    /\ timers = {}
    /\ events[1].kind = "keyup" /\ events[2].kind = "keyup"
    /\ events[2].at < events[1].at + SAVE_DELAY_MS

\* This step sends a save request.
SendsRequest == Len(events') = Len(events) + 1 /\ events'[Len(events')].kind = "save"

\* C16: the save request sent when the timeout fires carries the editor's
\* whole content as it is at that moment, whatever the editor held at the
\* keyup events of the burst.
C16_CarriesCurrentContent ==
    [][SendsRequest =>
         /\ events'[Len(events')].value = editorValue
         /\ editorValue' = editorValue]_vars

\* A save request has carried a content that the editor took after the
\* latest keyup event.
C16_Witness ==
    /\ events # <<>>
    /\ events[Len(events)].kind = "save"
    /\ events[Len(events)].value = editorValue
    /\ typed # editorValue
    /\ timers = {}

\* ------------------------------------------------- overlapping save requests
\* The two latest operations are save requests that were in flight together,
\* both answered 'Change committed successfully! (...)', and no request has
\* been sent since.
RacedPair ==
    /\ CleanSave(last) /\ last.peer # "none"
    /\ prev.op = "save" /\ "form" \in DOMAIN prev
    /\ last.resp.message \in CommittedMessages
    /\ prev.resp.message \in CommittedMessages
    /\ Quiet
\* The form of the one of the two that the client sent later.
LaterForm == IF last.peer = "older" THEN last.form ELSE prev.form

\* C17 (last edit wins): once two overlapping save requests have both
\* completed successfully, the note file and the snapshot of the latest
\* commit hold the content of the request sent later, however the steps of
\* the two requests interleave.
C17_LastEditWins ==
    RacedPair =>
        /\ noteFile = File(FormContent(LaterForm))
        /\ HeadTree(history) = File(FormContent(LaterForm))

\* C18: a save request with content X answered 'Change committed
\* successfully! (Autosave: <timestamp>)' has created a commit with that
\* message whose snapshot is the note with content X, also when steps of
\* another save request fall between its write and its commit.
C18_CommitHoldsPosted ==
    (last.op = "save" /\ last.resp.message \in CommittedMessages) =>
        /\ last.made > 0
        /\ last.resp.message = "Change committed successfully! (" \o history[last.made].message \o ")"
        /\ history[last.made].tree = File(FormContent(last.form))

\* The server is up, no save request is in flight, and the latest operation
\* is a bootstrap that reported success or a save request, overlapping no
\* other, whose write and git calls all succeeded.
QuiescentAfterSuccess ==
    /\ phase = "serving"
    /\ Quiet
    /\ \/ last.op = "start" /\ last.result = "True"
       \/ CleanSave(last) /\ last.alone

\* C19: in every quiescent state after a successful bootstrap and save
\* requests, none overlapping, whose writes and git calls all succeeded, the
\* snapshot of the latest commit is the content of the note file: the
\* working tree holds no uncommitted change.
C19_TreeCommitted ==
    QuiescentAfterSuccess => (noteFile # NoFile /\ HeadTree(history) = noteFile)

====
